---- MODULE Spec2Model ----
(***************************************************************************)
(* A model of sdf_xarray (src/src/sdf_xarray/__init__.py): the single-file *)
(* assembler SDFDataStore.load, the time-signature grouper make_time_dims, *)
(* and the multi-file consolidation of open_mfdataset.                     *)
(*                                                                         *)
(* Raw identifiers are sequences of one-character strings, so that the     *)
(* renaming and splitting the code performs on them is computed, not       *)
(* assumed.  A Python dict is an ordered sequence of entries with unique   *)
(* keys (insertion order), because the code depends on iteration order.    *)
(***************************************************************************)
EXTENDS Integers, Sequences, FiniteSets, TLC

\* ------------------------------------------------------------------ strings

\* str.replace(a, b) for one-character a and b
Replace(s, a, b) == [i \in 1..Len(s) |-> IF s[i] = a THEN b ELSE s[i]]

\* a slip: the dash is left in place
RenameKeepsDash(name) == Replace(Replace(name, "/", "_"), " ", "_")

\* _rename_with_underscore: "/", " " and "-" each become "_"
_rename_with_underscore(name) ==
    Replace(Replace(Replace(name, "/", "_"), " ", "_"), "-", "_")

\* position of the first / last occurrence of the character c in s, 0 if none
FirstIndex(s, c) ==
    IF \E i \in 1..Len(s) : s[i] = c
    THEN CHOOSE i \in 1..Len(s) : s[i] = c /\ \A j \in 1..(i - 1) : s[j] # c
    ELSE 0

LastIndex(s, c) ==
    IF \E i \in 1..Len(s) : s[i] = c
    THEN CHOOSE i \in 1..Len(s) : s[i] = c /\ \A j \in (i + 1)..Len(s) : s[j] # c
    ELSE 0

\* s.split(c, maxsplit=1)[-1]: what follows the first c, or s when c is absent
AfterFirst(s, c) ==
    LET i == FirstIndex(s, c) IN IF i = 0 THEN s ELSE SubSeq(s, i + 1, Len(s))

\* s.split(c)[-1]: what follows the last c, or s when c is absent
AfterLast(s, c) ==
    LET i == LastIndex(s, c) IN IF i = 0 THEN s ELSE SubSeq(s, i + 1, Len(s))

\* str.lower() on the letters the model's identifiers use
LowerChar(c) ==
    CASE c = "C" -> "c" [] c = "P" -> "p" [] c = "U" -> "u" [] c = "E" -> "e"
      [] c = "G" -> "g" [] c = "X" -> "x" [] c = "Y" -> "y" [] c = "B" -> "b"
      [] c = "I" -> "i" [] c = "D" -> "d" [] c = "S" -> "s" [] c = "F" -> "f"
      [] OTHER -> c

Lower(s) == [i \in 1..Len(s) |-> LowerChar(s[i])]

\* sub in s
Contains(s, sub) ==
    \E i \in 1..(Len(s) - Len(sub) + 1) : SubSeq(s, i, i + Len(sub) - 1) = sub

\* f"{a}_{b}"
Under(a, b) == a \o <<"_">> \o b

\* Python's word characters (the \w of a regular expression)
IsWordChar(c) == c \notin {"/", " ", "-", "$"}

\* _process_latex_name: every whole word Ex, Ey, ... Pz becomes $E_x$, ...
RECURSIVE LatexFrom(_, _)
LatexFrom(s, i) ==
    IF i > Len(s) THEN <<>>
    ELSE IF /\ i < Len(s)
            /\ s[i] \in {"E", "B", "J", "P"}
            /\ s[i + 1] \in {"x", "y", "z"}
            /\ (i = 1 \/ ~IsWordChar(s[i - 1]))
            /\ (i + 1 = Len(s) \/ ~IsWordChar(s[i + 2]))
         THEN <<"$", s[i], "_", s[i + 1], "$">> \o LatexFrom(s, i + 2)
         ELSE <<s[i]>> \o LatexFrom(s, i + 1)

_process_latex_name(variable_name) == LatexFrom(variable_name, 1)

\* _norm_grid_name: drop the leading "Grid/" segment
_norm_grid_name(grid_name) == AfterFirst(grid_name, "/")

\* _grid_species_name: the last path segment
_grid_species_name(grid_name) == AfterLast(grid_name, "/")

\* _process_grid_name with transform_func = _norm_grid_name
GridBaseName(grid_name) == _rename_with_underscore(_norm_grid_name(grid_name))

\* _process_grid_name with transform_func = _grid_species_name
GridSpeciesId(key) == _rename_with_underscore(_grid_species_name(key))

\* ------------------------------------------------- SDFDataStore.load (pure)

\* value.grid of a variable that has no mesh (Python's None)
None == <<"None">>

\* a result not there yet (None); a result r that is there is <<r>>
Nothing == <<>>

\* SDFPreprocess.job_id is None until a dataset was seen, then <<its job id>>
NoJobId == <<>>

\* the entry of a dict (an ordered sequence of records with a key) at key k
HasKey(d, k) == \E i \in 1..Len(d) : d[i].key = k

Get(d, k) == d[CHOOSE i \in 1..Len(d) : d[i].key = k]

\* dict.pop(k) of a key that is present
Pop(d, k) == SelectSeq(d, LAMBDA e : e.key # k)

\* name_map = {_rename_with_underscore(var): var for var in self.ds.variables}
\* name_map.get(key): the LAST variable whose underscored name is key
NameMapGet(variables, key) ==
    LET hits == {i \in 1..Len(variables) :
                    _rename_with_underscore(variables[i].key) = key}
    IN  IF hits = {} THEN None
        ELSE variables[CHOOSE i \in hits : \A j \in hits : j <= i].key

\* the drop loop: name_map is built once from the variables as they were on
\* entry; every requested name is looked up in it and popped from the file
RECURSIVE DropLoop(_, _, _, _)
DropLoop(entry, variables, drops, i) ==
    IF i > Len(drops) THEN [ok |-> TRUE, variables |-> variables]
    ELSE LET variable      == drops[i]
             key           == _rename_with_underscore(variable)
             original_name == NameMapGet(entry, key)
         IN  IF original_name = None
             THEN [ok |-> FALSE, variables |-> variables,
                   error |-> [type |-> "KeyError", what |-> "not found",
                              variable |-> variable, key |-> key]]
             ELSE IF ~HasKey(variables, original_name)
             THEN [ok |-> FALSE, variables |-> variables,
                   error |-> [type |-> "KeyError", what |-> "pop",
                              variable |-> original_name]]
             ELSE DropLoop(entry, Pop(variables, original_name), drops, i + 1)

DropVariables(variables, drops) == DropLoop(variables, variables, drops, 1)

\* the blocks the assembler ignores by name
IsCpu(key) == Contains(Lower(key), <<"c", "p", "u">>)

IsIgnoredVariable(key) ==
    \/ Contains(Lower(key), <<"c", "p", "u">>)
    \/ Contains(Lower(key), <<"b", "o", "u", "n", "d", "a", "r", "y">>)
    \/ Contains(Lower(key),
                <<"o", "u", "t", "p", "u", "t", " ", "f", "i", "l", "e">>)

\* whether the grids loop registers this mesh
KeepsGrid(g, keep_particles) ==
    ~IsCpu(g.key) /\ (keep_particles \/ ~g.is_point_data)

\* a slip: the variables loop forgets keep_particles
KeepsVariableAlways(v, keep_particles) == ~IsIgnoredVariable(v.key)

\* whether the variables loop reads this variable
KeepsVariable(v, keep_particles) ==
    ~IsIgnoredVariable(v.key) /\ (keep_particles \/ ~v.is_point_data)

\* the length of the coordinate array a mesh holds for its k-th label
CoordLen(g, k) == IF g.is_point_data THEN g.shape[1] ELSE g.shape[k]

\* the coords entries of one mesh, label by label (later labels overwrite)
RECURSIVE GridCoords(_, _, _)
GridCoords(g, k, acc) ==
    IF k > Len(g.labels) THEN acc
    ELSE LET base_name == GridBaseName(g.name)
             full_name == Under(g.labels[k], base_name)
             dim_name  == IF g.is_point_data
                          THEN Under(<<"I", "D">>, GridSpeciesId(g.key))
                          ELSE full_name
             entry == [dim |-> dim_name, size |-> CoordLen(g, k),
                       long_name |-> Replace(g.labels[k], "_", " "),
                       point_data |-> g.is_point_data, full_name |-> g.name]
         IN  GridCoords(g, k + 1, (full_name :> entry) @@ acc)

\* the grids loop: for key, value in self.ds.grids.items()
RECURSIVE RegisterGrids(_, _, _, _)
RegisterGrids(grids, keep_particles, i, acc) ==
    IF i > Len(grids) THEN acc
    ELSE IF KeepsGrid(grids[i], keep_particles)
         THEN RegisterGrids(grids, keep_particles, i + 1,
                            GridCoords(grids[i], 1, acc))
         ELSE RegisterGrids(grids, keep_particles, i + 1, acc)

\* the empty dict
EmptyDict == [x \in {} |-> x]

\* dim_size_lookup[label][size] after both meshes were entered (a later
\* entry with the same label and size overwrites).  None when absent.
RECURSIVE EnterGrid(_, _, _)
EnterGrid(g, k, acc) ==
    IF k > Len(g.labels) \/ k > Len(g.shape) THEN acc
    ELSE EnterGrid(g, k + 1,
            (<<g.labels[k], g.shape[k]>> :>
                 Under(g.labels[k], GridBaseName(g.name))) @@ acc)

\* a slip: the second loop names the offset mesh's axes after the primary mesh
DimSizeLookupOneName(grid, grid_mid) ==
    EnterGrid([grid_mid EXCEPT !.name = grid.name], 1, EnterGrid(grid, 1, EmptyDict))

DimSizeLookup(grid, grid_mid) == EnterGrid(grid_mid, 1, EnterGrid(grid, 1, EmptyDict))

\* a slip: an extent no mesh records falls back on the primary mesh's axis
ResolveAxesWithDefault(grid, grid_mid, shape) ==
    LET lookup == DimSizeLookup(grid, grid_mid)
        n == IF Len(grid.labels) < Len(shape) THEN Len(grid.labels) ELSE Len(shape)
    IN  [ok |-> TRUE,
         dims |-> [k \in 1..n |->
                     IF <<grid.labels[k], shape[k]>> \in DOMAIN lookup
                     THEN lookup[<<grid.labels[k], shape[k]>>]
                     ELSE Under(grid.labels[k], GridBaseName(grid.name))]]

\* var_coords = [dim_size_lookup[dim_name][dim_size] for ... zip(grid.labels, value.shape)]
\* as [ok, dims]; not ok when a lookup raises KeyError
ResolveAxes(grid, grid_mid, shape) ==
    LET lookup == DimSizeLookup(grid, grid_mid)
        n == IF Len(grid.labels) < Len(shape) THEN Len(grid.labels) ELSE Len(shape)
    IN  IF \A k \in 1..n : <<grid.labels[k], shape[k]>> \in DOMAIN lookup
        THEN [ok |-> TRUE,
              dims |-> [k \in 1..n |-> lookup[<<grid.labels[k], shape[k]>>]]]
        ELSE [ok |-> FALSE, dims |-> <<>>]

\* is_probe_name_match
IsProbeNameMatch(key, probe_names) ==
    probe_names # None /\ \E j \in 1..Len(probe_names) : Contains(key, probe_names[j])

\* var_coords of a point variable
PointDims(key, probe_names) ==
    <<Under(<<"I", "D">>,
            IF IsProbeNameMatch(key, probe_names)
            THEN _rename_with_underscore(_rename_with_underscore(key))
            ELSE GridSpeciesId(key))>>

\* dims = [f"dim_{key}_{n}" for n, _ in enumerate(shape)]
SyntheticDims(key, shape) ==
    [n \in 1..Len(shape) |-> <<"d", "i", "m", "_">> \o key \o <<"_", ToString(n - 1)>>]

\* attrs of a variable read lazily (a gridded field or a point variable)
LazyAttrs(v) ==
    LET base_name == _rename_with_underscore(v.key)
    IN  [units |-> v.units, point_data |-> v.is_point_data, full_name |-> v.key,
         long_name |-> _process_latex_name(Replace(base_name, "_", " "))]

\* data_attrs of a constant or mesh-less array
PlainAttrs(v) ==
    LET base_name == _rename_with_underscore(v.key)
        named == [full_name |-> v.key, long_name |-> Replace(base_name, "_", " ")]
    IN  IF v.units # None THEN ("units" :> v.units) @@ named ELSE named

\* Variable(dims, data, attrs): the dims must number the data's dimensions
MakeVariable(v, dims, attrs, lazy) ==
    IF Len(dims) # Len(v.shape)
    THEN [ok |-> FALSE,
          error |-> [type |-> "ValueError", what |-> "dimensions", variable |-> v.key]]
    ELSE [ok |-> TRUE,
          entry |-> [dims |-> dims, shape |-> v.shape, attrs |-> attrs, lazy |-> lazy]]

\* one pass of the variables loop for a variable that is not skipped
ReadVariable(v, grids, probe_names) ==
    IF v.kind = "constant" \/ v.grid = None
    THEN MakeVariable(v, SyntheticDims(v.key, v.shape), PlainAttrs(v), FALSE)
    ELSE IF v.is_point_data
    THEN MakeVariable(v, PointDims(v.key, probe_names), LazyAttrs(v), TRUE)
    ELSE IF ~HasKey(grids, v.grid) \/ ~HasKey(grids, v.grid_mid)
    THEN [ok |-> FALSE,
          error |-> [type |-> "KeyError", what |-> "grid", variable |-> v.key]]
    ELSE LET axes == ResolveAxes(Get(grids, v.grid), Get(grids, v.grid_mid), v.shape)
         IN  IF ~axes.ok
             THEN [ok |-> FALSE,
                   error |-> [type |-> "KeyError", what |-> "axis", variable |-> v.key]]
             ELSE MakeVariable(v, axes.dims, LazyAttrs(v), TRUE)

\* the variables loop: for key, value in self.ds.variables.items()
RECURSIVE ReadVariables(_, _, _, _, _)
ReadVariables(variables, grids, args, i, acc) ==
    IF i > Len(variables) THEN [ok |-> TRUE, data_vars |-> acc]
    ELSE IF ~KeepsVariable(variables[i], args.keep_particles)
    THEN ReadVariables(variables, grids, args, i + 1, acc)
    ELSE LET r == ReadVariable(variables[i], grids, args.probe_names)
         IN  IF ~r.ok THEN [ok |-> FALSE, data_vars |-> acc, error |-> r.error]
             ELSE ReadVariables(variables, grids, args, i + 1,
                     (_rename_with_underscore(variables[i].key) :> r.entry) @@ acc)

\* every (variable, position) pair of the data variables' dims
DimSlots(data_vars) ==
    UNION {{<<n, k>> : k \in 1..Len(data_vars[n].dims)} : n \in DOMAIN data_vars}

\* the sizes xr.Dataset finds for a dimension name
DimSizes(data_vars, coords, dim) ==
    {coords[c].size : c \in {c \in DOMAIN coords : coords[c].dim = dim}}
    \cup {data_vars[s[1]].shape[s[2]] :
            s \in {s \in DimSlots(data_vars) : data_vars[s[1]].dims[s[2]] = dim}}

AllDims(data_vars, coords) ==
    {coords[c].dim : c \in DOMAIN coords}
    \cup {data_vars[s[1]].dims[s[2]] : s \in DimSlots(data_vars)}

\* xr.Dataset(data_vars, attrs=attrs, coords=coords): a name may not be both
\* a data variable and a coordinate, and a dimension has one size
MakeDataset(data_vars, coords, attrs) ==
    IF DOMAIN data_vars \cap DOMAIN coords # {}
    THEN [ok |-> FALSE, error |-> [type |-> "ValueError", what |-> "both"]]
    ELSE IF \E d \in AllDims(data_vars, coords) :
                Cardinality(DimSizes(data_vars, coords, d)) > 1
    THEN [ok |-> FALSE, error |-> [type |-> "ValueError", what |-> "sizes"]]
    ELSE [ok |-> TRUE,
          dataset |-> [data_vars |-> data_vars, coords |-> coords, attrs |-> attrs]]

\* the whole of open_dataset on one file, as [ok, dataset] or [ok, error]
OpenDataset(file, a) ==
    LET dropped == DropVariables(file.variables, a.drop_variables)
    IN  IF ~dropped.ok THEN [ok |-> FALSE, error |-> dropped.error]
        ELSE LET cs == RegisterGrids(file.grids, a.keep_particles, 1, EmptyDict)
                 vs == ReadVariables(dropped.variables, file.grids, a, 1, EmptyDict)
             IN  IF ~vs.ok THEN [ok |-> FALSE, error |-> vs.error]
                 ELSE MakeDataset(vs.data_vars, cs, file.header)

\* ------------------------------------------------------------ make_time_dims

\* vars_count[key].append(t) on a defaultdict(list) kept in insertion order
AppendTime(vars_count, key, t) ==
    IF HasKey(vars_count, key)
    THEN [i \in 1..Len(vars_count) |->
            IF vars_count[i].key = key
            THEN [key |-> key, times |-> Append(vars_count[i].times, t)]
            ELSE vars_count[i]]
    ELSE Append(vars_count, [key |-> key, times |-> <<t>>])

\* for key in sdf_file.variables: vars_count[_rename_with_underscore(key)].append(time)
RECURSIVE CountVariables(_, _, _, _)
CountVariables(variables, t, i, vars_count) ==
    IF i > Len(variables) THEN vars_count
    ELSE CountVariables(variables, t, i + 1,
            AppendTime(vars_count, _rename_with_underscore(variables[i].key), t))

\* for grid in sdf_file.grids.values(): vars_count[_rename_with_underscore(grid.name)].append(time)
RECURSIVE CountGrids(_, _, _, _)
CountGrids(grids, t, i, vars_count) ==
    IF i > Len(grids) THEN vars_count
    ELSE CountGrids(grids, t, i + 1,
            AppendTime(vars_count, _rename_with_underscore(grids[i].name), t))

\* the body of the loop over the files
CountFile(file, vars_count) ==
    CountGrids(file.grids, file.header.time, 1,
               CountVariables(file.variables, file.header.time, 1, vars_count))

\* f"time{count}"
TimeName(count) == <<"t", "i", "m", "e", ToString(count)>>

\* Counter(tuple(v) for v in vars_count.values()), numbered in first-seen order
RECURSIVE DistinctTimes(_, _, _)
DistinctTimes(vars_count, i, acc) ==
    IF i > Len(vars_count) THEN acc
    ELSE IF \E j \in 1..Len(acc) : acc[j].times = vars_count[i].times
         THEN DistinctTimes(vars_count, i + 1, acc)
         ELSE DistinctTimes(vars_count, i + 1,
                 Append(acc, [key |-> TimeName(Len(acc)), times |-> vars_count[i].times]))

MakeTimeDims(vars_count) == DistinctTimes(vars_count, 1, <<>>)

\* a slip: every name is put on the first time dimension
FindTimeDimFirst(time_dims, v_tuple) == time_dims[1].key

\* the name of the first time dimension whose times equal v_tuple
FindTimeDim(time_dims, v_tuple) ==
    LET hits == {j \in 1..Len(time_dims) : time_dims[j].times = v_tuple}
    IN  IF hits = {} THEN None
        ELSE time_dims[CHOOSE j \in hits : \A h \in hits : j <= h].key

\* var_times_map: every counted name to the name of its time dimension
VarTimesMap(vars_count, time_dims) ==
    [n \in {vars_count[i].key : i \in 1..Len(vars_count)} |->
        FindTimeDim(time_dims, Get(vars_count, n).times)]

\* ------------------------------------------------- expanding along a time axis

\* the not-a-number fill of a missing entry
NaN == <<"NaN">>

\* the name of the shared time axis
Time == <<"t", "i", "m", "e">>

\* the payload a file holds for a block: which file, which block
Payload(ds, full_name) == <<ds.attrs.filename, full_name>>

\* DataArray.expand_dims(dim={tdim: [t]}) of a data variable or coordinate
ExpandEntry(entry, tdim, t, payload) ==
    [entry EXCEPT !.tdim = tdim, !.series = (t :> payload)]

\* a per-file dataset as open_dataset returns it: nothing lies on a time axis
Unexpanded(ds) ==
    [data_vars |-> [n \in DOMAIN ds.data_vars |->
                       [dims |-> ds.data_vars[n].dims, shape |-> ds.data_vars[n].shape,
                        attrs |-> ds.data_vars[n].attrs, tdim |-> None,
                        series |-> EmptyDict]],
     coords |-> [c \in DOMAIN ds.coords |->
                    [dim |-> ds.coords[c].dim, size |-> ds.coords[c].size,
                     point_data |-> ds.coords[c].point_data,
                     full_name |-> ds.coords[c].full_name, tdim |-> None,
                     series |-> EmptyDict]],
     index |-> EmptyDict,
     attrs |-> ds.attrs]

\* the time a preprocessed dataset is placed at
PreprocessTime(ds) == ds.attrs.time

\* a slip: only arrays that have a dimension are expanded, the constants are not
ExpandUnifiedArraysOnly(ds) ==
    LET t == PreprocessTime(ds)
    IN  [ds EXCEPT
           !.data_vars = [n \in DOMAIN ds.data_vars |->
               IF Len(ds.data_vars[n].dims) > 0
               THEN ExpandEntry(ds.data_vars[n], Time, t,
                                Payload(ds, ds.data_vars[n].attrs.full_name))
               ELSE ds.data_vars[n]],
           !.coords = [c \in DOMAIN ds.coords |->
               IF ds.coords[c].point_data
               THEN ExpandEntry(ds.coords[c], Time, t, Payload(ds, ds.coords[c].full_name))
               ELSE ds.coords[c]],
           !.index = (Time :> {t})]

\* SDFPreprocess.__call__ after the job id check: everything on the axis
\* "time", point-data coordinates included
ExpandUnified(ds) ==
    LET t == PreprocessTime(ds)
    IN  [ds EXCEPT
           !.data_vars = [n \in DOMAIN ds.data_vars |->
               ExpandEntry(ds.data_vars[n], Time, t,
                           Payload(ds, ds.data_vars[n].attrs.full_name))],
           !.coords = [c \in DOMAIN ds.coords |->
               IF ds.coords[c].point_data
               THEN ExpandEntry(ds.coords[c], Time, t, Payload(ds, ds.coords[c].full_name))
               ELSE ds.coords[c]],
           !.index = (Time :> {t})]

\* the SDF name rebuilt from a point coordinate's name: f"Grid_{base_name}"
SdfCoordName(coord) == Under(<<"G", "r", "i", "d">>, AfterFirst(coord, "_"))

\* the time axis open_mfdataset looks up for a name
GroupOf(var_times_map, name) == var_times_map[name]

\* open_mfdataset, lines 145-157: every data variable, and every point-data
\* coordinate, is expanded along the time axis of its own group
ExpandSplit(ds, var_times_map) ==
    LET t == ds.attrs.time
        point == {c \in DOMAIN ds.coords : ds.coords[c].point_data}
    IN  IF \E n \in DOMAIN ds.data_vars : n \notin DOMAIN var_times_map
        THEN [ok |-> FALSE, error |-> [type |-> "KeyError", what |-> "var_times_map"]]
        ELSE IF \E c \in point : SdfCoordName(c) \notin DOMAIN var_times_map
        THEN [ok |-> FALSE, error |-> [type |-> "KeyError", what |-> "var_times_map"]]
        ELSE [ok |-> TRUE,
              dataset |-> [ds EXCEPT
                 !.data_vars = [n \in DOMAIN ds.data_vars |->
                     ExpandEntry(ds.data_vars[n], GroupOf(var_times_map, n), t,
                                 Payload(ds, ds.data_vars[n].attrs.full_name))],
                 !.coords = [c \in DOMAIN ds.coords |->
                     IF c \in point
                     THEN ExpandEntry(ds.coords[c],
                                      GroupOf(var_times_map, SdfCoordName(c)), t,
                                      Payload(ds, ds.coords[c].full_name))
                     ELSE ds.coords[c]],
                 !.index = [g \in {GroupOf(var_times_map, n) : n \in DOMAIN ds.data_vars}
                                  \cup {GroupOf(var_times_map, SdfCoordName(c)) : c \in point}
                              |-> {t}]]]

\* ------------------------------------------------------------------ combining

\* a finite set of numbers as an increasing sequence
RECURSIVE SortedSeq(_)
SortedSeq(S) ==
    IF S = {} THEN <<>>
    ELSE LET m == CHOOSE x \in S : \A y \in S : x <= y
         IN  <<m>> \o SortedSeq(S \ {m})

\* a slip: join="left", the index of the first dataset alone
JoinIndexLeft(indexes) == indexes[1]

\* join="outer": the index of a dimension is the union of the datasets' indexes
JoinIndex(indexes) == UNION {indexes[i] : i \in 1..Len(indexes)}

\* the combined labels of the time axis g over the datasets that have it
CombinedIndex(dss, g) ==
    LET having == SelectSeq(dss, LAMBDA ds : g \in DOMAIN ds.index)
    IN  JoinIndex([i \in 1..Len(having) |-> having[i].index[g]])

\* the values the datasets give for an entry (kind is "data_vars" or
\* "coords") at the label t of its time axis
ValuesAt(dss, kind, n, t) ==
    {dss[i][kind][n].series[t] :
        i \in {i \in 1..Len(dss) : n \in DOMAIN dss[i][kind]
                                     /\ t \in DOMAIN dss[i][kind][n].series}}

\* one entry of the combined dataset: the first dataset's entry of that name,
\* its series laid along the combined index, absent labels filled with NaN
CombineEntry(dss, kind, n, index) ==
    LET first == dss[CHOOSE i \in 1..Len(dss) :
                        /\ n \in DOMAIN dss[i][kind]
                        /\ \A j \in 1..(i - 1) : n \notin DOMAIN dss[j][kind]][kind][n]
        labels == IF first.tdim = None THEN <<>> ELSE SortedSeq(index[first.tdim])
    IN  [first EXCEPT !.series =
            [k \in 1..Len(labels) |->
                IF ValuesAt(dss, kind, n, labels[k]) = {} THEN NaN
                ELSE CHOOSE v \in ValuesAt(dss, kind, n, labels[k]) : TRUE]]

\* xr.combine_by_coords / xr.open_mfdataset with join="outer",
\* compat="no_conflicts": entries are matched by name and by time label; two
\* different values for one name at one label are a conflict
Combine(dss) ==
    LET names(kind) == UNION {DOMAIN dss[i][kind] : i \in 1..Len(dss)}
        groups == UNION {DOMAIN dss[i].index : i \in 1..Len(dss)}
        index == [g \in groups |-> CombinedIndex(dss, g)]
        clash(kind) == \E n \in names(kind) : \E t \in UNION {index[g] : g \in groups} :
                          Cardinality(ValuesAt(dss, kind, n, t)) > 1
    IN  IF clash("data_vars") \/ clash("coords")
        THEN [ok |-> FALSE, error |-> [type |-> "MergeError", what |-> "conflict"]]
        ELSE [ok |-> TRUE,
              dataset |-> [data_vars |-> [n \in names("data_vars") |->
                                             CombineEntry(dss, "data_vars", n, index)],
                           coords |-> [c \in names("coords") |->
                                          CombineEntry(dss, "coords", c, index)],
                           index |-> [g \in groups |-> SortedSeq(index[g])]]]

\* ------------------------------------------------------- the files' blocks

\* the longest drop list the model passes
MaxDrop == 3

\* sequences over S of length at most n
SeqsUpTo(S, n) == UNION {[1..k -> S] : k \in 0..n}

\* mesh keys (block ids) and names
KeyGrid       == <<"g", "r", "i", "d">>
KeyGridMid    == <<"g", "r", "i", "d", "_", "m", "i", "d">>
KeyGridE      == <<"g", "r", "i", "d", "/", "e">>
NameGrid      == <<"G", "r", "i", "d", "/", "G", "r", "i", "d">>
NameGridMid   == <<"G", "r", "i", "d", "/", "G", "r", "i", "d", "_", "m", "i", "d">>
NameGridE     == <<"G", "r", "i", "d", "/", "P", "/", "e">>
NamePoints    == <<"P", "/", "e">>

\* variable names
NameEx  == <<"E", "/", "E", "x">>
NameAB  == <<"a", "/", "b">>
NameAsB == <<"a", " ", "b">>
NamePx  == <<"P", "/", "P", "x", "/", "e">>
NameCpu == <<"C", "P", "U", "/", "r">>

\* the extents of the primary mesh, and the number of particles
BaseShape == <<3, 5>>
PointShape == <<4>>

\* the primary mesh, and its offset mesh with every extent shifted by d
PrimaryGrid == [key |-> KeyGrid, name |-> NameGrid, labels |-> <<<<"X">>, <<"Y">>>>,
                shape |-> BaseShape, is_point_data |-> FALSE]

OffsetGrid(d) == [key |-> KeyGridMid, name |-> NameGridMid,
                  labels |-> <<<<"X">>, <<"Y">>>>,
                  shape |-> [k \in 1..Len(BaseShape) |-> BaseShape[k] + d],
                  is_point_data |-> FALSE]

PointGrid == [key |-> KeyGridE, name |-> NameGridE, labels |-> <<<<"X">>>>,
              shape |-> PointShape, is_point_data |-> TRUE]

FieldVariable(key, shape) ==
    [key |-> key, kind |-> "variable", grid |-> KeyGrid, grid_mid |-> KeyGridMid,
     shape |-> shape, is_point_data |-> FALSE, units |-> <<"V">>]

ConstantBlock(key) ==
    [key |-> key, kind |-> "constant", grid |-> None, grid_mid |-> None,
     shape |-> <<>>, is_point_data |-> FALSE, units |-> <<"J">>]

PointVariable(key) ==
    [key |-> key, kind |-> "variable", grid |-> KeyGridE, grid_mid |-> None,
     shape |-> PointShape, is_point_data |-> TRUE, units |-> <<"k", "g">>]

\* the extents a field variable may have in position k: the primary mesh's,
\* the offset mesh's, or one that neither mesh records
FieldShapes(d) ==
    {sh \in [1..Len(BaseShape) -> 1..9] :
        \A k \in 1..Len(BaseShape) :
            sh[k] \in {BaseShape[k], BaseShape[k] + d, BaseShape[k] + 2}}

\* a file's blocks, in the order the reader lists them
Blocks(shape, withAsB, withPoint, withCpu) ==
    <<FieldVariable(NameEx, shape), ConstantBlock(NameAB)>>
    \o (IF withAsB THEN <<ConstantBlock(NameAsB)>> ELSE <<>>)
    \o (IF withPoint THEN <<PointVariable(NamePx)>> ELSE <<>>)
    \o (IF withCpu THEN <<FieldVariable(NameCpu, BaseShape)>> ELSE <<>>)

Meshes(d, withPoint) ==
    <<PrimaryGrid, OffsetGrid(d)>> \o (IF withPoint THEN <<PointGrid>> ELSE <<>>)

\* the names a caller asks to drop: a raw name, its underscored form, and a
\* name no file holds
DropNames == {NameAB, _rename_with_underscore(NameAB), <<"z">>}

\* the probe_names a caller passes: none, or a list one of whose names is
\* part of the point variable's name
ProbeNames == {None, <<<<"P", "x">>, <<"z">>>>}

\* ------------------------------------------------------- the file handles

\* the SDFFile a CachingFileManager opens for a path
NewHandle(path) == [path |-> path, open |-> TRUE, releases |-> 0]

\* SDFFile.close(): releases the handle if it is open, else does nothing
SdfClose(h) == IF h.open THEN [h EXCEPT !.open = FALSE, !.releases = @ + 1] ELSE h

\* --------------------------------------------- SDFEntrypoint.open_dataset

VARIABLES
    sdf,        \* the opened SDFFile: header, variables, grids
    args,       \* drop_variables, keep_particles, probe_names
    pc,         \* where open_dataset stands
    coords,     \* the coords dict of load()
    data_vars,  \* the data_vars dict of load()
    dataset,    \* <<the Dataset returned>>, or Nothing
    error,      \* <<the exception raised>>, or Nothing
    is_open,    \* whether the store's file handle is open
    files,         \* the files on disk that the call names, sorted by path
    margs,         \* separate_times, keep_particles, probe_names
    mpc,           \* where open_mfdataset stands
    k,             \* the file the current loop is at
    vars_count,    \* make_time_dims: name -> list of times
    time_dims,     \* make_time_dims: time axis name -> times
    var_times_map, \* make_time_dims: name -> time axis name
    all_dfs,       \* the per-file datasets
    job_id,        \* SDFPreprocess.job_id
    combined,      \* <<the consolidated Dataset>>, or Nothing
    merror,        \* <<the exception open_mfdataset raised>>, or Nothing
    handles,       \* every SDFFile a CachingFileManager has opened
    stores,        \* the SDFDataStores created by open_dataset calls
    last_read,     \* <<the last slice read of a lazy variable>>, or Nothing
    call,          \* a call of a helper function: its name and argument
    result,        \* <<what the call returned or raised>>, or Nothing
    lock,          \* who holds the file manager's lock
    opener,        \* where the thread that opens the dataset stands
    arrays,        \* the SDFBackendArrays constructed: name -> shape, dtype
    requested,     \* the variables a slice of which was requested
    payload_read,  \* the variables whose payload was read from the file
    readers        \* where each reading thread stands

openVars == <<sdf, args, pc, coords, data_vars, dataset, error, is_open>>

multiVars == <<margs, mpc, k, vars_count, time_dims, var_times_map,
               all_dfs, job_id, combined, merror>>

storeVars == <<handles, stores, last_read>>

utilVars == <<call, result>>

threadVars == <<lock, opener, arrays, requested, payload_read, readers>>

vars == <<files, openVars, multiVars, storeVars, utilVars, threadVars>>

\* the lock when no thread holds it
Free == "free"

\* no dataset is being opened or read by threads
ThreadIdle ==
    /\ lock = Free /\ opener = [pc |-> "none"] /\ arrays = EmptyDict
    /\ requested = {} /\ payload_read = {} /\ readers = EmptyDict

\* no helper function is being called
NoCall == [fn |-> "none"]

UtilIdle == call = NoCall /\ result = Nothing

\* no store has been created
StoreIdle == handles = <<>> /\ stores = <<>> /\ last_read = Nothing

\* no open_dataset call is in progress
OpenIdle ==
    /\ sdf = None /\ args = None /\ pc = "idle" /\ coords = EmptyDict
    /\ data_vars = EmptyDict /\ dataset = Nothing /\ error = Nothing /\ is_open = FALSE

\* no open_mfdataset call is in progress
MultiIdle ==
    /\ margs = None /\ mpc = "idle" /\ k = 0
    /\ vars_count = <<>> /\ time_dims = <<>> /\ var_times_map = EmptyDict
    /\ all_dfs = <<>> /\ job_id = NoJobId /\ combined = Nothing /\ merror = Nothing

Init ==
    /\ MultiIdle
    /\ StoreIdle
    /\ UtilIdle
    /\ ThreadIdle
    /\ \E d \in {-1, 0, 1}, withAsB \in BOOLEAN, withPoint \in BOOLEAN,
          withCpu \in BOOLEAN :
         \E shape \in FieldShapes(d) :
            files = <<[header |-> [filename |-> 1, time |-> 1, jobid1 |-> 1],
                      variables |-> Blocks(shape, withAsB, withPoint, withCpu),
                      grids |-> Meshes(d, withPoint)]>>
    /\ sdf = files[1]
    /\ args \in [drop_variables : SeqsUpTo(DropNames, MaxDrop),
                 keep_particles : BOOLEAN, probe_names : ProbeNames]
    /\ pc = "drop"
    /\ coords = EmptyDict
    /\ data_vars = EmptyDict
    /\ dataset = Nothing
    /\ error = Nothing
    /\ is_open = TRUE

\* load(), lines 300-312: drop the requested variables from the file
LoadDrop ==
    /\ pc = "drop"
    /\ LET r == DropVariables(sdf.variables, args.drop_variables)
       IN  /\ sdf' = [sdf EXCEPT !.variables = r.variables]
           /\ IF r.ok THEN pc' = "grids" /\ error' = error
                      ELSE pc' = "raised" /\ error' = <<r.error>>
    /\ UNCHANGED <<args, coords, data_vars, dataset, is_open, files, multiVars, storeVars, utilVars, threadVars>>

\* load(), lines 334-360: register every mesh's coordinates
LoadGrids ==
    /\ pc = "grids"
    /\ coords' = RegisterGrids(sdf.grids, args.keep_particles, 1, EmptyDict)
    /\ pc' = "variables"
    /\ UNCHANGED <<sdf, args, data_vars, dataset, error, is_open, files, multiVars, storeVars, utilVars, threadVars>>

\* load(), lines 363-458: read every variable
LoadVariables ==
    /\ pc = "variables"
    /\ LET r == ReadVariables(sdf.variables, sdf.grids, args, 1, EmptyDict)
       IN  /\ data_vars' = r.data_vars
           /\ IF r.ok THEN pc' = "dataset" /\ error' = error
                      ELSE pc' = "raised" /\ error' = <<r.error>>
    /\ UNCHANGED <<sdf, args, coords, dataset, is_open, files, multiVars, storeVars, utilVars, threadVars>>

\* load(), lines 467-470: build the Dataset and return it
LoadDataset ==
    /\ pc = "dataset"
    /\ LET r == MakeDataset(data_vars, coords, sdf.header)
       IN  IF r.ok THEN pc' = "done" /\ dataset' = <<r.dataset>> /\ error' = error
                   ELSE pc' = "raised" /\ dataset' = dataset /\ error' = <<r.error>>
    /\ UNCHANGED <<sdf, args, coords, data_vars, is_open, files, multiVars, storeVars, utilVars, threadVars>>

\* open_dataset, lines 496-497: close_on_error closes the store and re-raises
CloseOnError ==
    /\ pc = "raised"
    /\ is_open' = FALSE
    /\ pc' = "failed"
    /\ UNCHANGED <<sdf, args, coords, data_vars, dataset, error, files, multiVars, storeVars, utilVars, threadVars>>

Next == LoadDrop \/ LoadGrids \/ LoadVariables \/ LoadDataset \/ CloseOnError

Spec == Init /\ [][Next]_vars

\* --------------------------------------------------------- open_mfdataset

\* the most files the model opens together
MaxFiles == 2

\* dumps of one run, sorted by name, carry increasing times
FileTime(i) == 2 * i + 1

\* extents that neither the primary nor the offset mesh records
OddShape == [j \in 1..Len(BaseShape) |-> BaseShape[j] + 2]

\* the names a point mesh may carry: with the leading segment "Grid", or
\* without it
PointGridNames == {NameGridE, NamePoints}

\* the blocks of one file of a collection: the field, the two constants whose
\* names underscore alike, and the particles are each there or not; the
\* point mesh is named point_name
FileOf(i, jobid, has, point_name) ==
    [header |-> [filename |-> i, time |-> FileTime(i), jobid1 |-> jobid],
     variables |-> (IF has.Ex
                    THEN <<FieldVariable(NameEx, IF has.Odd THEN OddShape
                                                 ELSE OffsetGrid(-1).shape)>>
                    ELSE <<>>)
                   \o <<ConstantBlock(NameAB)>>
                   \o (IF has.AsB THEN <<ConstantBlock(NameAsB)>> ELSE <<>>)
                   \o (IF has.Px THEN <<PointVariable(NamePx)>> ELSE <<>>),
     grids |-> Meshes(-1, FALSE)
               \o (IF has.Px THEN <<[PointGrid EXCEPT !.name = point_name]>> ELSE <<>>)]

\* the keyword arguments open_mfdataset passes on to open_dataset
OpenArgs == [drop_variables |-> <<>>, keep_particles |-> margs.keep_particles,
             probe_names |-> margs.probe_names]

InitMulti ==
    /\ OpenIdle
    /\ StoreIdle
    /\ UtilIdle
    /\ ThreadIdle
    /\ \E n \in 1..MaxFiles :
         \E has \in [1..n -> [Ex : BOOLEAN, Odd : BOOLEAN, AsB : BOOLEAN, Px : BOOLEAN]],
            jobid \in [1..n -> {1, 2}], point_name \in PointGridNames :
            /\ jobid[1] = 1
            /\ \A i \in 1..n : has[i].Odd => has[i].Ex
            /\ files = [i \in 1..n |-> FileOf(i, jobid[i], has[i], point_name)]
    /\ margs \in [separate_times : BOOLEAN, keep_particles : BOOLEAN,
                  probe_names : {None}]
    /\ mpc = "start"
    /\ k = 1
    /\ vars_count = <<>>
    /\ time_dims = <<>>
    /\ var_times_map = EmptyDict
    /\ all_dfs = <<>>
    /\ job_id = NoJobId
    /\ combined = Nothing
    /\ merror = Nothing

\* open_mfdataset, lines 133-139: unified time opens the files at once,
\* separate times first runs make_time_dims
Dispatch ==
    /\ mpc = "start"
    /\ mpc' = IF margs.separate_times THEN "count" ELSE "open"
    /\ UNCHANGED <<files, utilVars, threadVars, openVars, storeVars, margs, k, vars_count, time_dims, var_times_map,
                   all_dfs, job_id, combined, merror>>

\* make_time_dims, lines 176-183: one file of the loop
CountNext ==
    /\ mpc = "count"
    /\ vars_count' = CountFile(files[k], vars_count)
    /\ IF k < Len(files) THEN k' = k + 1 /\ mpc' = mpc
                         ELSE k' = 1 /\ mpc' = "name"
    /\ UNCHANGED <<files, utilVars, threadVars, openVars, storeVars, margs, time_dims, var_times_map, all_dfs,
                   job_id, combined, merror>>

\* make_time_dims, lines 185-204: name the distinct time lists, map the names
NameTimeDims ==
    /\ mpc = "name"
    /\ LET tds == MakeTimeDims(vars_count)
           map == VarTimesMap(vars_count, tds)
       IN  /\ time_dims' = tds
           /\ var_times_map' = map
           /\ IF \E n \in DOMAIN map : map[n] = None
              THEN mpc' = "failed" /\ merror' = <<[type |-> "ValueError", what |-> "time dim"]>>
              ELSE mpc' = "open" /\ merror' = merror
    /\ UNCHANGED <<files, utilVars, threadVars, openVars, storeVars, margs, k, vars_count, all_dfs, job_id, combined>>

\* open_dataset on the next file (line 141, or inside xr.open_mfdataset)
OpenNext ==
    /\ mpc = "open"
    /\ LET r == OpenDataset(files[k], OpenArgs)
       IN  IF ~r.ok
           THEN /\ mpc' = "failed" /\ merror' = <<r.error>>
                /\ handles' = Append(handles, SdfClose(NewHandle(k)))
                /\ UNCHANGED <<k, all_dfs>>
           ELSE /\ all_dfs' = Append(all_dfs, Unexpanded(r.dataset))
                /\ handles' = Append(handles, NewHandle(k))
                /\ merror' = merror
                /\ IF k < Len(files) THEN k' = k + 1 /\ mpc' = mpc
                   ELSE k' = 1 /\ mpc' = IF margs.separate_times THEN "expand"
                                                                 ELSE "preprocess"
    /\ UNCHANGED <<files, utilVars, threadVars, openVars, stores, last_read, margs, vars_count, time_dims, var_times_map,
                   job_id, combined>>

\* open_mfdataset, lines 145-157: one dataset of the loop
ExpandNext ==
    /\ mpc = "expand"
    /\ LET r == ExpandSplit(all_dfs[k], var_times_map)
       IN  IF ~r.ok
           THEN /\ mpc' = "failed" /\ merror' = <<r.error>>
                /\ UNCHANGED <<k, all_dfs>>
           ELSE /\ all_dfs' = [all_dfs EXCEPT ![k] = r.dataset]
                /\ merror' = merror
                /\ IF k < Len(all_dfs) THEN k' = k + 1 /\ mpc' = mpc
                                       ELSE k' = 1 /\ mpc' = "combine"
    /\ UNCHANGED <<files, utilVars, threadVars, openVars, storeVars, margs, vars_count, time_dims, var_times_map,
                   job_id, combined>>

\* a slip: the held job id is overwritten by every dataset
RecordedJobIdLatest(held, ds) == <<ds.attrs.jobid1>>

\* the job id SDFPreprocess holds once it has looked at ds
RecordedJobId(held, ds) == IF held = NoJobId THEN <<ds.attrs.jobid1>> ELSE held

\* SDFPreprocess.__call__ on the next dataset
PreprocessNext ==
    /\ mpc = "preprocess"
    /\ LET ds == all_dfs[k]
       IN  /\ job_id' = RecordedJobId(job_id, ds)
           /\ IF job_id' # <<ds.attrs.jobid1>>
              THEN /\ mpc' = "failed"
                   /\ merror' = <<[type |-> "ValueError", what |-> "Mismatching job ids",
                                  got |-> ds.attrs.jobid1, expected |-> job_id'[1]]>>
                   /\ UNCHANGED <<k, all_dfs>>
              ELSE /\ all_dfs' = [all_dfs EXCEPT ![k] = ExpandUnified(ds)]
                   /\ merror' = merror
                   /\ IF k < Len(all_dfs) THEN k' = k + 1 /\ mpc' = mpc
                                          ELSE k' = 1 /\ mpc' = "combine"
    /\ UNCHANGED <<files, utilVars, threadVars, openVars, storeVars, margs, vars_count, time_dims, var_times_map, combined>>

\* xr.combine_by_coords (lines 159-166) or the combine inside
\* xr.open_mfdataset (lines 83-91)
CombineAll ==
    /\ mpc = "combine"
    /\ LET r == Combine(all_dfs)
       IN  IF r.ok
           THEN /\ mpc' = "done" /\ combined' = <<r.dataset>> /\ merror' = merror
                /\ handles' = handles
           ELSE /\ mpc' = "failed" /\ combined' = combined /\ merror' = <<r.error>>
                /\ handles' = IF margs.separate_times THEN handles
                               ELSE [h \in 1..Len(handles) |-> SdfClose(handles[h])]
    /\ UNCHANGED <<files, utilVars, threadVars, openVars, stores, last_read, margs, k, vars_count, time_dims, var_times_map,
                   all_dfs, job_id>>

NextMulti ==
    Dispatch \/ CountNext \/ NameTimeDims \/ OpenNext \/ ExpandNext
    \/ PreprocessNext \/ CombineAll

SpecMulti == InitMulti /\ [][NextMulti]_vars

\* ------------------------------------ open_dataset on files with other blocks

\* a mesh the grids loop skips because of its key, and a field that lies on it
KeyGridCpu  == <<"g", "r", "i", "d", "/", "c", "p", "u">>
NameGridCpu == <<"G", "r", "i", "d", "/", "c", "p", "u">>
NameN       == <<"D", "/", "n">>
CpuShape    == <<6>>

CpuGrid == [key |-> KeyGridCpu, name |-> NameGridCpu, labels |-> <<<<"X">>>>,
            shape |-> CpuShape, is_point_data |-> FALSE]

CpuGridField ==
    [key |-> NameN, kind |-> "variable", grid |-> KeyGridCpu, grid_mid |-> KeyGridCpu,
     shape |-> CpuShape, is_point_data |-> FALSE, units |-> <<"V">>]

\* a mesh whose name differs from the offset mesh's by a space for the "_"
KeyGridTwin  == <<"g", "r", "i", "d", "_", "t", "w", "i", "n">>
NameGridTwin == <<"G", "r", "i", "d", "/", "G", "r", "i", "d", " ", "m", "i", "d">>

TwinGrid(shape) == [key |-> KeyGridTwin, name |-> NameGridTwin,
                    labels |-> <<<<"X">>, <<"Y">>>>, shape |-> shape,
                    is_point_data |-> FALSE]

\* the drop lists of this part: nothing, a block the variables loop ignores
\* (raw or underscored), or a name no file holds
IgnoredDrops ==
    {<<>>, <<NameCpu>>, <<_rename_with_underscore(NameCpu)>>, <<<<"z">>>>}

InitBlocks ==
    /\ MultiIdle
    /\ StoreIdle
    /\ UtilIdle
    /\ ThreadIdle
    /\ \E d \in {-1, 1}, withCpu \in BOOLEAN, withCpuGrid \in BOOLEAN,
          twin \in {<<>>, <<BaseShape>>, <<OddShape>>} :
         \E shape \in FieldShapes(d) :
            files = <<[header |-> [filename |-> 1, time |-> 1, jobid1 |-> 1],
                      variables |-> Blocks(shape, FALSE, FALSE, withCpu)
                                    \o (IF withCpuGrid THEN <<CpuGridField>> ELSE <<>>),
                      grids |-> Meshes(d, FALSE)
                                \o (IF withCpuGrid THEN <<CpuGrid>> ELSE <<>>)
                                \o [j \in 1..Len(twin) |-> TwinGrid(twin[j])]]>>
    /\ sdf = files[1]
    /\ args \in [drop_variables : IgnoredDrops, keep_particles : BOOLEAN,
                 probe_names : {None}]
    /\ pc = "drop"
    /\ coords = EmptyDict
    /\ data_vars = EmptyDict
    /\ dataset = Nothing
    /\ error = Nothing
    /\ is_open = TRUE

SpecBlocks == InitBlocks /\ [][Next]_vars

\* ------------------------------------------- stores, datasets, slice reads

\* the number of open_dataset calls, and of close calls on one dataset
MaxOpens == 2
MaxCloses == 2

\* the error SDFFile raises when a closed file is read
ClosedError == <<"RuntimeError">>

\* the files on disk in this part: one that opens, one whose field variable
\* has extents that no mesh records
StoreFiles ==
    <<FileOf(1, 1, [Ex |-> TRUE, Odd |-> FALSE, AsB |-> FALSE, Px |-> TRUE], NameGridE),
      FileOf(2, 1, [Ex |-> TRUE, Odd |-> TRUE, AsB |-> FALSE, Px |-> FALSE], NameGridE)>>

InitStore ==
    /\ OpenIdle
    /\ MultiIdle
    /\ StoreIdle
    /\ UtilIdle
    /\ ThreadIdle
    /\ files = StoreFiles

\* a slip: load() forgets ds.set_close
LoadCloserUnset(h) == Nothing

\* ds.set_close(self.ds.close): the dataset's closer is the close of the
\* SDFFile the manager has opened
LoadCloser(h) == <<h>>

\* the data variables of a dataset that are read lazily, as name -> block key
LazyKeys(ds) ==
    [n \in {n \in DOMAIN ds.data_vars : ds.data_vars[n].lazy} |->
        ds.data_vars[n].attrs.full_name]

\* SDFEntrypoint.open_dataset as the caller sees it: SDFDataStore.open makes
\* a CachingFileManager of its own, which opens the file; load() builds the
\* dataset; if load() raises, close_on_error closes the store
StoreOpen ==
    /\ Len(handles) < MaxOpens
    /\ \E path \in 1..Len(files), keep \in BOOLEAN :
         LET r == OpenDataset(files[path],
                              [drop_variables |-> <<>>, keep_particles |-> keep,
                               probe_names |-> None])
             h == Len(handles) + 1
         IN  IF r.ok
             THEN /\ handles' = Append(handles, NewHandle(path))
                  /\ stores' = Append(stores,
                        [path |-> path, handle |-> h, closer |-> LoadCloser(h),
                         closes |-> 0, lazy |-> LazyKeys(r.dataset)])
             ELSE /\ handles' = Append(handles, SdfClose(NewHandle(path)))
                  /\ stores' = stores
    /\ UNCHANGED <<files, utilVars, threadVars, openVars, multiVars, last_read>>

\* Dataset.close(): calls the closer if there is one, then forgets it
DatasetClose ==
    /\ \E d \in 1..Len(stores) :
         /\ stores[d].closes < MaxCloses
         /\ handles' = IF stores[d].closer = Nothing THEN handles
                       ELSE [handles EXCEPT ![stores[d].closer[1]] = SdfClose(@)]
         /\ stores' = [stores EXCEPT ![d].closer = Nothing, ![d].closes = @ + 1]
    /\ UNCHANGED <<files, utilVars, threadVars, openVars, multiVars, last_read>>

\* original_array.data[key] on the SDFFile h
ReadData(h, key) == IF h.open THEN <<h.path, key>> ELSE ClosedError

\* a slip: the array found at construction is kept and read again
RawIndexingMethodKept(store, key) == <<store.path, key>>

\* SDFBackendArray._raw_indexing_method: the file the store's manager holds
\* is acquired and the variable is read from it
RawIndexingMethod(store, key) == ReadData(handles[store.handle], key)

\* a slice read of a lazy variable of a dataset
ReadSlice ==
    /\ \E d \in 1..Len(stores) : \E n \in DOMAIN stores[d].lazy :
         last_read' = <<[store |-> d, name |-> n, closes |-> stores[d].closes,
                         result |-> RawIndexingMethod(stores[d], stores[d].lazy[n])]>>
    /\ UNCHANGED <<files, utilVars, threadVars, openVars, multiVars, handles, stores>>

NextStore == StoreOpen \/ DatasetClose \/ ReadSlice

SpecStore == InitStore /\ [][NextStore]_vars

\* ------------------------------------------- the lock and the reading threads

\* the threads that read slices, and the slice reads each of them makes
Readers == {"r1", "r2"}
MaxReads == 2

\* the thread that opens the dataset
Opener == "opener"

\* the file the threads work on
ThreadFile == StoreFiles[1]

\* the variables for which load() constructs an SDFBackendArray, in the order
\* of the variables loop
LazyVariables(keep_particles) ==
    SelectSeq(ThreadFile.variables,
              LAMBDA v : /\ KeepsVariable(v, keep_particles)
                         /\ ~(v.kind = "constant" \/ v.grid = None))

\* array.dtype of a block
DType(v) == "float64"

\* a slip: the element type is taken from the payload (array.data.dtype)
BackendArrayInitEager(v) == [shape |-> v.shape, dtype |-> DType(v), payload |-> TRUE]

\* SDFBackendArray.__init__: shape and dtype are read from the block's
\* metadata; payload tells whether the payload was read for it
BackendArrayInit(v) == [shape |-> v.shape, dtype |-> DType(v), payload |-> FALSE]

\* a slip: the lock taken for the lookup of the file is kept
OptionalLockKept(holder) == holder

\* leaving CachingFileManager._acquire_with_cache_info: the lock taken for
\* the lookup of the cached file is released before the with-body runs
OptionalLockExit(holder) == Free

InitThreads ==
    /\ OpenIdle
    /\ MultiIdle
    /\ StoreIdle
    /\ UtilIdle
    /\ files = <<ThreadFile>>
    /\ lock = Free
    /\ opener \in [pc : {"acquire"}, i : {1}, keep_particles : BOOLEAN]
    /\ arrays = EmptyDict
    /\ requested = {}
    /\ payload_read = {}
    /\ readers = [t \in Readers |-> [pc |-> "idle", name |-> None, done |-> 0]]

\* SDFBackendArray.__init__ -> get_array(needs_lock=True): the lock is requested
OpenerAcquire ==
    /\ opener.pc = "acquire"
    /\ lock = Free
    /\ lock' = Opener
    /\ opener' = [opener EXCEPT !.pc = "lookup"]
    /\ UNCHANGED <<files, openVars, multiVars, storeVars, utilVars,
                   arrays, requested, payload_read, readers>>

\* get_array: the file is looked up and ds.variables[name] returned
OpenerLookup ==
    /\ opener.pc = "lookup"
    /\ lock' = OptionalLockExit(lock)
    /\ opener' = [opener EXCEPT !.pc = "record"]
    /\ UNCHANGED <<files, openVars, multiVars, storeVars, utilVars,
                   arrays, requested, payload_read, readers>>

\* SDFBackendArray.__init__: shape and dtype are recorded; after the last
\* variable load() returns the dataset
OpenerRecord ==
    /\ opener.pc = "record"
    /\ LET lazy == LazyVariables(opener.keep_particles)
           v == lazy[opener.i]
           name == _rename_with_underscore(v.key)
           probe == BackendArrayInit(v)
       IN  /\ arrays' = (name :> [key |-> v.key, shape |-> probe.shape,
                                  dtype |-> probe.dtype]) @@ arrays
           /\ payload_read' = IF probe.payload THEN payload_read \cup {name}
                              ELSE payload_read
           /\ opener' = IF opener.i < Len(lazy)
                        THEN [opener EXCEPT !.pc = "acquire", !.i = @ + 1]
                        ELSE [opener EXCEPT !.pc = "done"]
    /\ UNCHANGED <<files, openVars, multiVars, storeVars, utilVars,
                   lock, requested, readers>>

\* SDFBackendArray.__getitem__: a slice of a variable is requested
GetItem(t) ==
    /\ opener.pc = "done"
    /\ readers[t].pc = "idle"
    /\ readers[t].done < MaxReads
    /\ \E n \in DOMAIN arrays :
         /\ readers' = [readers EXCEPT ![t].pc = "acquire", ![t].name = n]
         /\ requested' = requested \cup {n}
    /\ UNCHANGED <<files, openVars, multiVars, storeVars, utilVars,
                   lock, opener, arrays, payload_read>>

\* _raw_indexing_method -> acquire_context(): the lock is requested
Acquire(t) ==
    /\ readers[t].pc = "acquire"
    /\ lock = Free
    /\ lock' = t
    /\ readers' = [readers EXCEPT ![t].pc = "lookup"]
    /\ UNCHANGED <<files, openVars, multiVars, storeVars, utilVars,
                   opener, arrays, requested, payload_read>>

\* acquire_context(): the file is looked up and the with-body entered
Lookup(t) ==
    /\ readers[t].pc = "lookup"
    /\ lock' = OptionalLockExit(lock)
    /\ readers' = [readers EXCEPT ![t].pc = "get_array"]
    /\ UNCHANGED <<files, openVars, multiVars, storeVars, utilVars,
                   opener, arrays, requested, payload_read>>

\* get_array(needs_lock=False): ds.variables[name], no lock requested
GetArray(t) ==
    /\ readers[t].pc = "get_array"
    /\ readers' = [readers EXCEPT ![t].pc = "read"]
    /\ UNCHANGED <<files, openVars, multiVars, storeVars, utilVars,
                   lock, opener, arrays, requested, payload_read>>

\* original_array.data[key]: the payload read begins
ReadBegin(t) ==
    /\ readers[t].pc = "read"
    /\ readers' = [readers EXCEPT ![t].pc = "reading"]
    /\ payload_read' = payload_read \cup {readers[t].name}
    /\ UNCHANGED <<files, openVars, multiVars, storeVars, utilVars,
                   lock, opener, arrays, requested>>

\* the payload read ends and the slice is returned
ReadEnd(t) ==
    /\ readers[t].pc = "reading"
    /\ readers' = [readers EXCEPT ![t].pc = "idle", ![t].name = None, ![t].done = @ + 1]
    /\ UNCHANGED <<files, openVars, multiVars, storeVars, utilVars,
                   lock, opener, arrays, requested, payload_read>>

OpenerStep == OpenerAcquire \/ OpenerLookup \/ OpenerRecord

ReaderStep(t) == Acquire(t) \/ Lookup(t) \/ GetArray(t) \/ ReadBegin(t) \/ ReadEnd(t)

NextThreads == OpenerStep \/ \E t \in Readers : GetItem(t) \/ ReaderStep(t)

SpecThreads == InitThreads /\ [][NextThreads]_vars

\* every thread that can take a step of load() or of a slice read it has
\* begun takes it in the end; callers are free to request no further slice
SpecThreadsFair ==
    /\ SpecThreads
    /\ WF_vars(OpenerStep)
    /\ \A t \in Readers : WF_vars(ReaderStep(t))

\* ------------------------------------------------- paths and the file system

\* the characters of the model's paths and names, in code point order
Alphabet ==
    <<" ", "*", "-", ".", "/", "1", "2", "3", "D", "F", "S", "_", "a", "d", "e",
      "f", "s", "t", "x">>

CharRank(c) == CHOOSE i \in 1..Len(Alphabet) : Alphabet[i] = c

\* a < b for two paths, character by character
RECURSIVE PathLess(_, _)
PathLess(a, b) ==
    IF b = <<>> THEN FALSE
    ELSE IF a = <<>> THEN TRUE
    ELSE IF a[1] = b[1] THEN PathLess(Tail(a), Tail(b))
    ELSE CharRank(a[1]) < CharRank(b[1])

\* the working directory, and the files on disk
Cwd == <<"/", "d">>

SdfSuffix == <<".", "s", "d", "f">>

Disk ==
    {Cwd \o <<"/">> \o n :
        n \in {<<"1">> \o SdfSuffix, <<"2">> \o SdfSuffix, <<"3", ".", "t", "x", "t">>}}

EndsWith(s, t) == Len(s) >= Len(t) /\ SubSeq(s, Len(s) - Len(t) + 1, Len(s)) = t

StartsWith(s, t) == Len(s) >= Len(t) /\ SubSeq(s, 1, Len(t)) = t

\* Path(p).name and Path(p).parent
PathName(p) == AfterLast(p, "/")

PathParent(p) ==
    LET i == LastIndex(p, "/")
    IN  IF i = 0 THEN <<".">> ELSE IF i = 1 THEN <<"/">> ELSE SubSeq(p, 1, i - 1)

\* parent / name
JoinPath(parent, name) ==
    IF parent = <<".">> THEN name
    ELSE IF parent = <<"/">> THEN parent \o name
    ELSE parent \o <<"/">> \o name

\* Path.resolve(): the absolute path (the model has no links and no "..")
Resolve(p) ==
    IF p = <<".">> THEN Cwd
    ELSE IF p[1] = "/" THEN p
    ELSE Cwd \o <<"/">> \o p

\* p.parent.glob("*.sdf"): the entries of the directory that end in .sdf
GlobSdf(parent) ==
    {JoinPath(parent, PathName(f)) :
        f \in {f \in Disk : PathParent(f) = Resolve(parent) /\ EndsWith(PathName(f), SdfSuffix)}}

\* sorted(p.resolve() for p in paths): one entry per member of paths
RECURSIVE SortResolved(_)
SortResolved(paths) ==
    IF paths = {} THEN <<>>
    ELSE LET m == CHOOSE x \in paths :
                     \A y \in paths : ~PathLess(Resolve(y), Resolve(x))
         IN  <<Resolve(m)>> \o SortResolved(paths \ {m})

\* lines 74-77: sort, and refuse an empty list
FinishGlob(paths) ==
    IF paths = {} THEN [ok |-> FALSE, error |-> "FileNotFoundError"]
    ELSE [ok |-> TRUE, paths |-> SortResolved(paths)]

\* _resolve_glob: kind is "str" (one string), "path" (one Path) or "iter" (a
\* list or generator of paths); list(p) of a Path raises TypeError, and then a
\* string is iterated character by character
_resolve_glob(kind, arg) ==
    IF kind = "iter" THEN FinishGlob({arg[i] : i \in 1..Len(arg)})
    ELSE IF PathName(arg) = <<"*">> \o SdfSuffix THEN FinishGlob(GlobSdf(PathParent(arg)))
    ELSE IF kind = "str" THEN FinishGlob({<<arg[i]>> : i \in 1..Len(arg)})
    ELSE [ok |-> FALSE, error |-> "TypeError"]

\* Path(name).suffix
PathSuffix(name) ==
    LET n == PathName(name)
        i == LastIndex(n, ".")
    IN  IF 1 < i /\ i < Len(n) THEN SubSeq(n, i, Len(n)) ELSE <<>>

MagicSdf == <<"S", "D", "F", "1">>

\* SDFEntrypoint.guess_can_open: magic is what
\* try_read_magic_number_from_path returned, None if it could not read
guess_can_open(magic, name) ==
    IF magic # None THEN StartsWith(magic, MagicSdf)
    ELSE PathSuffix(name) \in {SdfSuffix, <<".", "S", "D", "F">>}

\* ------------------------------------------------- EpochAccessor.rescale_coords

\* the coordinates of the dataset the accessor is called on
XGridMid == "X_Grid_mid"
YGridMid == "Y_Grid_mid"
ZGridMid == "Z_Grid_mid"

RescaleCoords ==
    [c \in {XGridMid, YGridMid, ZGridMid} |->
        [values |-> <<1, 2>>,
         attrs |-> [units |-> "m", full_name |-> "Grid/Grid_mid",
                    long_name |-> CASE c = XGridMid -> "X" [] c = YGridMid -> "Y"
                                    [] OTHER -> "Z"]]]

\* coord_rescaled = coord_original * multiplier, with the attrs copied and the
\* units replaced
RescaleOne(coord, multiplier, unit_label) ==
    [values |-> [i \in 1..Len(coord.values) |-> coord.values[i] * multiplier],
     attrs |-> [coord.attrs EXCEPT !.units = unit_label]]

\* the loop over coords_to_process, then ds.assign_coords(new_coords)
RECURSIVE RescaleLoop(_, _, _, _, _, _)
RescaleLoop(ds, new_coords, multiplier, unit_label, names, i) ==
    IF i > Len(names)
    THEN [ok |-> TRUE,
          coords |-> [c \in DOMAIN ds |->
                         IF c \in DOMAIN new_coords THEN new_coords[c] ELSE ds[c]]]
    ELSE IF names[i] \notin DOMAIN ds
    THEN [ok |-> FALSE, error |-> "ValueError", name |-> names[i]]
    ELSE RescaleLoop(ds, (names[i] :> RescaleOne(ds[names[i]], multiplier, unit_label))
                             @@ new_coords,
                     multiplier, unit_label, names, i + 1)

\* dataset_accessor.py, rescale_coords(multiplier, unit_label, coord_names):
\* kind tells whether coord_names is a str, a list or a tuple
rescale_coords(ds, multiplier, unit_label, kind, coord_names) ==
    IF kind = "str"
    THEN RescaleLoop(ds, EmptyDict, multiplier, unit_label, <<coord_names>>, 1)
    ELSE IF kind = "list"
    THEN RescaleLoop(ds, EmptyDict, multiplier, unit_label, coord_names, 1)
    ELSE [ok |-> FALSE, error |-> "TypeError", name |-> "coord_names"]

\* accessor.py, rescale_coords(multiplier, unit_label, x_coord_name,
\* y_coord_name): a call that passes coord_names= cannot be bound to it
rescale_coords_xy(ds, multiplier, unit_label, kind, x_coord_name, y_coord_name) ==
    IF kind # "xy"
    THEN [ok |-> FALSE, error |-> "TypeError", name |-> "coord_names"]
    ELSE RescaleLoop(ds, EmptyDict, multiplier, unit_label,
                     <<x_coord_name, y_coord_name>>, 1)

\* ------------------------------------------------- calls of the helpers

MaxLen == 3
MaxPaths == 3
MaxNames == 2

\* the characters of raw identifiers
NameChars == {"/", " ", "-", "_", "a"}

\* the strings and single paths passed as path_glob
GlobStrings ==
    {Cwd \o <<"/", "*">> \o SdfSuffix, <<"*">> \o SdfSuffix,
     Cwd \o <<"/", "1", "*">> \o SdfSuffix, Cwd \o <<"/", "1">> \o SdfSuffix,
     <<"/", "e", "/", "*">> \o SdfSuffix, Cwd}

\* the spellings of files in a list of paths
Spellings ==
    {Cwd \o <<"/", "1">> \o SdfSuffix, <<"1">> \o SdfSuffix, Cwd \o <<"/", "2">> \o SdfSuffix}

Magics == {None, MagicSdf, MagicSdf \o <<"a">>, <<"S", "D", "F", "2">>, <<"S", "D">>}

FileNames ==
    {<<"a">> \o SdfSuffix, <<"a", ".", "S", "D", "F">>, <<"a", ".", "S", "d", "f">>,
     <<"a", ".", "t", "x", "t">>, <<"s", "d", "f">>, SdfSuffix}

\* the names passed to rescale_coords, one of them not a coordinate
CoordNames == {XGridMid, YGridMid, "Bad_Coord"}

Multipliers == {2, 3}

InitUtil ==
    /\ OpenIdle
    /\ MultiIdle
    /\ StoreIdle
    /\ ThreadIdle
    /\ files = <<>>
    /\ result = Nothing
    /\ \/ call \in [fn : {"rename"}, arg : SeqsUpTo(NameChars, MaxLen)]
       \/ call \in [fn : {"resolve"}, kind : {"str", "path"}, arg : GlobStrings]
       \/ call \in [fn : {"resolve"}, kind : {"iter"}, arg : SeqsUpTo(Spellings, MaxPaths)]
       \/ call \in [fn : {"guess"}, magic : Magics, name : FileNames]
       \/ call \in [fn : {"rescale"}, module : {"accessor", "dataset_accessor"},
                     kind : {"str"}, multiplier : Multipliers, names : CoordNames]
       \/ call \in [fn : {"rescale"}, module : {"accessor", "dataset_accessor"},
                     kind : {"list", "tuple"}, multiplier : Multipliers,
                     names : SeqsUpTo(CoordNames, MaxNames)]
       \/ call \in [fn : {"rescale"}, module : {"accessor"}, kind : {"xy"},
                     multiplier : Multipliers, names : [1..2 -> CoordNames]]

RenameCall ==
    /\ call.fn = "rename" /\ result = Nothing
    /\ result' = <<_rename_with_underscore(call.arg)>>
    /\ UNCHANGED <<files, openVars, multiVars, storeVars, threadVars, call>>

ResolveGlobCall ==
    /\ call.fn = "resolve" /\ result = Nothing
    /\ result' = <<_resolve_glob(call.kind, call.arg)>>
    /\ UNCHANGED <<files, openVars, multiVars, storeVars, threadVars, call>>

GuessCanOpenCall ==
    /\ call.fn = "guess" /\ result = Nothing
    /\ result' = <<guess_can_open(call.magic, call.name)>>
    /\ UNCHANGED <<files, openVars, multiVars, storeVars, threadVars, call>>

\* ds.epoch.rescale_coords(...) with whichever module registered the accessor
RescaleCall ==
    /\ call.fn = "rescale" /\ result = Nothing
    /\ result' =
         <<IF call.module = "dataset_accessor"
           THEN rescale_coords(RescaleCoords, call.multiplier, "cm", call.kind, call.names)
           ELSE rescale_coords_xy(RescaleCoords, call.multiplier, "cm", call.kind,
                                  IF call.kind = "xy" THEN call.names[1] ELSE XGridMid,
                                  IF call.kind = "xy" THEN call.names[2] ELSE YGridMid)>>
    /\ UNCHANGED <<files, openVars, multiVars, storeVars, threadVars, call>>

NextUtil == RenameCall \/ ResolveGlobCall \/ GuessCanOpenCall \/ RescaleCall

SpecUtil == InitUtil /\ [][NextUtil]_vars

\* ---------------------------------------------------------------- properties

\* fnmatch of a file name against a pattern with at most one "*"
MatchName(pattern, name) ==
    LET i == FirstIndex(pattern, "*")
    IN  IF i = 0 THEN pattern = name
        ELSE /\ Len(name) >= Len(pattern) - 1
             /\ StartsWith(name, SubSeq(pattern, 1, i - 1))
             /\ EndsWith(name, SubSeq(pattern, i + 1, Len(pattern)))

\* the files on disk that a glob pattern matches
GlobMatches(pattern) ==
    {f \in Disk : /\ PathParent(f) = Resolve(PathParent(pattern))
                  /\ MatchName(PathName(pattern), PathName(f))}

\* a list holding the members of a set of paths, in some order
RECURSIVE ListOf(_)
ListOf(paths) ==
    IF paths = {} THEN <<>>
    ELSE LET m == CHOOSE x \in paths : TRUE IN <<m>> \o ListOf(paths \ {m})

\* the call of a helper has returned
Returned(fn) == call.fn = fn /\ result # Nothing


\* a gridded field block, as opposed to a constant or a point variable
IsField(v) == v.kind = "variable" /\ v.grid # None /\ ~v.is_point_data

\* the mesh M records the extent under the axis label
Records(M, label, extent) ==
    \E j \in 1..Len(M.labels) : M.labels[j] = label /\ M.shape[j] = extent

\* the extents of the two meshes differ by exactly one on every axis
OffByOne(g, m) ==
    /\ Len(g.shape) = Len(m.shape)
    /\ \A j \in 1..Len(g.shape) : g.shape[j] - m.shape[j] \in {-1, 1}

\* the axis name a mesh gives to the k-th label of the primary mesh
AxisName(g, M, j) == Under(g.labels[j], GridBaseName(M.name))

\* the field variables of the file that load() has read into data_vars
ReadFields ==
    {i \in 1..Len(sdf.variables) :
        /\ IsField(sdf.variables[i])
        /\ KeepsVariable(sdf.variables[i], args.keep_particles)
        /\ _rename_with_underscore(sdf.variables[i].key) \in DOMAIN data_vars
        /\ data_vars[_rename_with_underscore(sdf.variables[i].key)].attrs.full_name
              = sdf.variables[i].key}

\* C1: when the primary and the offset mesh differ by one on every axis, each
\* dimension of a field variable that was read is bound to the axis name of a
\* mesh that records that dimension's label with the matching extent, and to
\* no other; a variable sized like the offset mesh carries only offset-mesh
\* axis names, one sized like the primary mesh only primary-mesh axis names
C1_AxisBinding ==
    pc \in {"dataset", "done"} =>
        \A i \in ReadFields :
            LET v == sdf.variables[i]
                g == Get(sdf.grids, v.grid)
                m == Get(sdf.grids, v.grid_mid)
                dims == data_vars[_rename_with_underscore(v.key)].dims
            IN  OffByOne(g, m) =>
                  /\ Len(dims) = Len(v.shape)
                  /\ \A j \in 1..Len(v.shape) :
                       /\ \E M \in {g, m} : Records(M, g.labels[j], v.shape[j])
                       /\ \A M \in {g, m} :
                            Records(M, g.labels[j], v.shape[j])
                               => dims[j] = AxisName(g, M, j)
                  /\ v.shape = m.shape
                        => \A j \in 1..Len(dims) : dims[j] = AxisName(m, m, j)
                  /\ v.shape = g.shape
                        => \A j \in 1..Len(dims) : dims[j] = AxisName(g, g, j)

\* a file was opened whose field variable is sized like the offset mesh
C1_Witness ==
    /\ pc = "done"
    /\ \E i \in ReadFields :
          LET v == sdf.variables[i]
          IN  /\ OffByOne(Get(sdf.grids, v.grid), Get(sdf.grids, v.grid_mid))
              /\ v.shape = Get(sdf.grids, v.grid_mid).shape
              /\ _rename_with_underscore(v.key) \in DOMAIN dataset[1].data_vars

\* the underscored names make_time_dims observes, and the files holding them
ObservedNames ==
    UNION {{_rename_with_underscore(files[i].variables[j].key) :
               j \in 1..Len(files[i].variables)}
           \cup {_rename_with_underscore(files[i].grids[j].name) :
               j \in 1..Len(files[i].grids)} : i \in 1..Len(files)}

HoldsName(file, n) ==
    \/ \E j \in 1..Len(file.variables) : _rename_with_underscore(file.variables[j].key) = n
    \/ \E j \in 1..Len(file.grids) : _rename_with_underscore(file.grids[j].name) = n

\* the times of exactly the files in which the name is present, in file order
Signature(n) ==
    LET having == SelectSeq(files, LAMBDA f : HoldsName(f, n))
    IN  [i \in 1..Len(having) |-> having[i].header.time]

\* C2: after make_time_dims every observed name belongs to exactly one time
\* group, two names share a group exactly when their signatures are equal,
\* and the group's times are the times of exactly the files holding the name
C2_Grouping ==
    (mpc \in {"open", "expand", "combine", "done"} /\ margs.separate_times) =>
        \A n \in ObservedNames :
            /\ n \in DOMAIN var_times_map
            /\ Cardinality({j \in 1..Len(time_dims) :
                               time_dims[j].key = var_times_map[n]}) = 1
            /\ \A j \in 1..Len(time_dims) :
                  time_dims[j].key = var_times_map[n]
                     => time_dims[j].times = Signature(n)
            /\ \A m \in ObservedNames \cap DOMAIN var_times_map :
                  (var_times_map[n] = var_times_map[m]) <=> (Signature(n) = Signature(m))

\* the file holds a block whose underscored name is n
PresentIn(n, i) ==
    \E j \in 1..Len(files[i].variables) :
        _rename_with_underscore(files[i].variables[j].key) = n

\* the number of files holding a block whose underscored name is n
FilesHolding(n) == Cardinality({i \in 1..Len(files) : PresentIn(n, i)})

\* C3: with separate times, a variable present in k of the files has k
\* entries along its time axis in the consolidated dataset
C3_SplitLength ==
    (mpc = "done" /\ margs.separate_times) =>
        \A n \in DOMAIN combined[1].data_vars :
            LET e == combined[1].data_vars[n]
            IN  /\ e.tdim # None
                /\ e.tdim # Time
                /\ Len(e.series) = FilesHolding(n)
                /\ Len(combined[1].index[e.tdim]) = FilesHolding(n)

\* two files were combined with separate times, a variable being in one only
C3_Witness ==
    /\ mpc = "done" /\ margs.separate_times /\ Len(files) = 2
    /\ \E n \in DOMAIN combined[1].data_vars :
          FilesHolding(n) = 1 /\ Len(combined[1].data_vars[n].series) = 1
    /\ \E n \in DOMAIN combined[1].data_vars :
          FilesHolding(n) = 2 /\ Len(combined[1].data_vars[n].series) = 2

\* what the i-th file holds for the variable n: a payload, or nothing
PayloadsIn(n, i) ==
    {<<files[i].header.filename, files[i].variables[j].key>> :
        j \in {j \in 1..Len(files[i].variables) :
                  _rename_with_underscore(files[i].variables[j].key) = n}}

\* C4: with unified time the shared axis has one entry per file, every
\* variable lies along it, and a variable's entry at a file's time is that
\* file's payload if the file holds the variable and NaN if it does not
C4_UnifiedAxis ==
    (mpc = "done" /\ ~margs.separate_times) =>
        /\ DOMAIN combined[1].index = {Time}
        /\ combined[1].index[Time] = [i \in 1..Len(files) |-> files[i].header.time]
        /\ \A n \in DOMAIN combined[1].data_vars :
              LET e == combined[1].data_vars[n]
              IN  /\ e.tdim = Time
                  /\ Len(e.series) = Len(files)
                  /\ \A i \in 1..Len(files) :
                        IF PresentIn(n, i) THEN e.series[i] \in PayloadsIn(n, i)
                                           ELSE e.series[i] = NaN

\* two files: one variable in both, one only in the second, which therefore
\* has one NaN entry
C4_Witness ==
    /\ mpc = "done" /\ ~margs.separate_times /\ Len(files) = 2
    /\ \E a, b \in DOMAIN combined[1].data_vars :
          /\ PresentIn(a, 1) /\ PresentIn(a, 2)
          /\ NaN \notin {combined[1].data_vars[a].series[i] : i \in 1..2}
          /\ ~PresentIn(b, 1) /\ PresentIn(b, 2)
          /\ combined[1].data_vars[b].series[1] = NaN
          /\ combined[1].data_vars[b].series[2] # NaN

\* the length of the time axis a variable of the consolidated dataset lies on
OwnAxisLength(n) == Len(combined[1].index[combined[1].data_vars[n].tdim])

\* C5 as stated: in both modes the length of a variable's own time axis is
\* the number of files that hold the variable, and is the number of all the
\* files only for a variable every file holds
C5_Original ==
    mpc = "done" =>
        \A n \in DOMAIN combined[1].data_vars :
            /\ OwnAxisLength(n) = FilesHolding(n)
            /\ OwnAxisLength(n) = Len(files) => \A i \in 1..Len(files) : PresentIn(n, i)

\* C5: with separate times the length of a variable's own time axis is the
\* number of files that hold the variable; with unified time it is the
\* number of all the files, for every variable
C5_Amended ==
    mpc = "done" =>
        \A n \in DOMAIN combined[1].data_vars :
            /\ margs.separate_times => OwnAxisLength(n) = FilesHolding(n)
            /\ ~margs.separate_times => OwnAxisLength(n) = Len(files)
            /\ OwnAxisLength(n) = Len(files)
                  => (~margs.separate_times \/ \A i \in 1..Len(files) : PresentIn(n, i))

\* unified time over two files, a variable that only one of them holds
C5_Witness ==
    /\ mpc = "done" /\ ~margs.separate_times /\ Len(files) = 2
    /\ \E n \in DOMAIN combined[1].data_vars :
          FilesHolding(n) = 1 /\ OwnAxisLength(n) = 2

\* the files before the i-th all carry the first file's job id
SameJobBefore(i) ==
    \A j \in 1..(i - 1) : files[j].header.jobid1 = files[1].header.jobid1

\* C6: the job id SDFPreprocess records is the first dataset's and never
\* changes; a later dataset is accepted exactly when its job id equals it,
\* the first mismatch raises a ValueError naming both ids, and unified time
\* over files of differing job ids returns no dataset
C6_JobId ==
    ~margs.separate_times =>
        /\ job_id \in {NoJobId, <<files[1].header.jobid1>>}
        /\ mpc = "preprocess" =>
              /\ SameJobBefore(k)
              /\ \A j \in 1..(k - 1) : all_dfs[j].index = (Time :> {files[j].header.time})
              /\ \A j \in k..Len(all_dfs) : all_dfs[j].index = EmptyDict
        /\ mpc \in {"combine", "done"} => SameJobBefore(Len(files) + 1)
        /\ (mpc = "failed" /\ merror[1].type = "ValueError") =>
              /\ merror[1].what = "Mismatching job ids"
              /\ SameJobBefore(k)
              /\ files[k].header.jobid1 # files[1].header.jobid1
              /\ merror[1].got = files[k].header.jobid1
              /\ merror[1].expected = files[1].header.jobid1
              /\ combined = Nothing
        /\ ~SameJobBefore(Len(files) + 1) => mpc # "done" /\ combined = Nothing

\* the second file's job id differs and the call has failed on it
C6_Witness ==
    /\ ~margs.separate_times /\ mpc = "failed" /\ k = 2
    /\ merror[1].what = "Mismatching job ids"
    /\ merror[1].got # merror[1].expected
    /\ job_id = <<files[1].header.jobid1>>

\* C7 as stated: whatever blocks the file holds, the dataset open_dataset
\* returns has no data variable named by the underscored form of a name of
\* the drop list
C7_DropRemoves ==
    pc = "done" =>
        \A i \in 1..Len(args.drop_variables) :
            _rename_with_underscore(args.drop_variables[i])
                \notin DOMAIN dataset[1].data_vars

\* the names of the drop list whose underscored form no block of the file has
UnmatchedDrops ==
    {i \in 1..Len(args.drop_variables) :
        \A j \in 1..Len(files[1].variables) :
            _rename_with_underscore(files[1].variables[j].key)
                # _rename_with_underscore(args.drop_variables[i])}

\* C8 as stated: a drop list with a name whose underscored form matches no
\* block of the file fails with the variable-not-found KeyError that carries
\* the requested name and its underscored form, and returns no dataset
C8_DropUnknown ==
    (pc # "drop" /\ UnmatchedDrops # {}) =>
        /\ pc \in {"raised", "failed"}
        /\ dataset = Nothing
        /\ error[1].type = "KeyError"
        /\ error[1].what = "not found"
        /\ \E i \in UnmatchedDrops :
              /\ error[1].variable = args.drop_variables[i]
              /\ error[1].key = _rename_with_underscore(args.drop_variables[i])

\* the field variables left after the drop that have a dimension whose label
\* and extent neither of their meshes records
Unresolvable ==
    {i \in 1..Len(sdf.variables) :
        LET v == sdf.variables[i]
        IN  /\ IsField(v)
            /\ KeepsVariable(v, args.keep_particles)
            /\ HasKey(sdf.grids, v.grid) /\ HasKey(sdf.grids, v.grid_mid)
            /\ \E j \in 1..Len(v.shape) :
                  \A M \in {Get(sdf.grids, v.grid), Get(sdf.grids, v.grid_mid)} :
                      ~Records(M, Get(sdf.grids, v.grid).labels[j], v.shape[j])}

\* the drop list has already made load() fail, before any variable is read
DropFailed == error # Nothing /\ error[1].what \in {"not found", "pop"}

\* C9: a field variable with a dimension that neither of its meshes records
\* makes open_dataset fail: no dataset is returned, the variable is never
\* bound to an axis name, and unless the drop list has failed first the
\* error is the KeyError of that variable's axis lookup
C9_AxisFailure ==
    (pc # "drop" /\ Unresolvable # {}) =>
        /\ pc \in {"grids", "variables", "raised", "failed"}
        /\ dataset = Nothing
        /\ \A i \in Unresolvable :
              _rename_with_underscore(sdf.variables[i].key) \notin DOMAIN data_vars
        /\ (pc \in {"raised", "failed"} /\ ~DropFailed) =>
              /\ error[1].type = "KeyError"
              /\ error[1].what = "axis"
              /\ \E i \in Unresolvable : error[1].variable = sdf.variables[i].key
        /\ pc \in {"raised", "failed"} => error[1].type = "KeyError"

\* open_dataset has failed on a field variable whose extent no mesh records
C9_Witness ==
    /\ pc = "failed" /\ Unresolvable # {}
    /\ error[1].what = "axis"
    /\ dataset = Nothing /\ data_vars = EmptyDict

\* the data variable was read from a point-data block of the file
FromPointBlock(entry) ==
    \E j \in 1..Len(files[1].variables) :
        /\ files[1].variables[j].key = entry.attrs.full_name
        /\ files[1].variables[j].is_point_data

\* C10: without keep_particles the returned dataset has no data variable read
\* from a point-data block and no coordinate of a point mesh; with it, every
\* point variable that is neither excluded by name nor dropped, and every
\* coordinate of a point mesh not excluded by name, is in the dataset
C10_KeepParticles ==
    pc = "done" =>
        IF ~args.keep_particles
        THEN /\ \A n \in DOMAIN dataset[1].data_vars :
                   ~FromPointBlock(dataset[1].data_vars[n])
             /\ \A c \in DOMAIN dataset[1].coords : ~dataset[1].coords[c].point_data
        ELSE /\ \A i \in 1..Len(sdf.variables) :
                   (sdf.variables[i].is_point_data
                       /\ ~IsIgnoredVariable(sdf.variables[i].key))
                   => LET n == _rename_with_underscore(sdf.variables[i].key)
                      IN  /\ n \in DOMAIN dataset[1].data_vars
                          /\ dataset[1].data_vars[n].attrs.full_name
                                = sdf.variables[i].key
             /\ \A i \in 1..Len(sdf.grids) :
                   (sdf.grids[i].is_point_data /\ ~IsCpu(sdf.grids[i].key))
                   => \A j \in 1..Len(sdf.grids[i].labels) :
                         LET c == AxisName(sdf.grids[i], sdf.grids[i], j)
                         IN  /\ c \in DOMAIN dataset[1].coords
                             /\ dataset[1].coords[c].point_data

\* a file with particles was opened without keep_particles
C10_Witness ==
    /\ pc = "done" /\ ~args.keep_particles
    /\ \E j \in 1..Len(files[1].variables) : files[1].variables[j].is_point_data
    /\ \E j \in 1..Len(files[1].grids) : files[1].grids[j].is_point_data

\* C11: with particles kept, the one axis of every point variable is the axis
\* on which the coordinates of its owning point mesh are registered, whatever
\* probe_names is
C11_IdentityAxis ==
    (pc = "done" /\ args.keep_particles) =>
        \A i \in 1..Len(sdf.variables) :
            LET v == sdf.variables[i]
            IN  (v.is_point_data /\ ~IsIgnoredVariable(v.key) /\ HasKey(sdf.grids, v.grid))
                => LET g == Get(sdf.grids, v.grid)
                       e == dataset[1].data_vars[_rename_with_underscore(v.key)]
                   IN  /\ Len(e.dims) = 1
                       /\ \A j \in 1..Len(g.labels) :
                             dataset[1].coords[AxisName(g, g, j)].dim = e.dims[1]

\* C12: every time list make_time_dims builds has at most one entry per input
\* file, so it is no longer than the number of input files
C12_SignatureLength ==
    /\ \A i \in 1..Len(vars_count) :
          /\ Len(vars_count[i].times) <= Len(files)
          /\ \A a, b \in 1..Len(vars_count[i].times) :
                a # b => vars_count[i].times[a] # vars_count[i].times[b]
    /\ \A j \in 1..Len(time_dims) : Len(time_dims[j].times) <= Len(files)

\* C15: when an open fails, of one file or of a later file of a collection in
\* either mode, every handle the call had opened is released by the time the
\* error reaches the caller
C15_HandlesReleased ==
    /\ pc = "failed" => ~is_open
    /\ mpc = "failed" => \A h \in 1..Len(handles) : ~handles[h].open

\* C13: however often and whenever a dataset is closed after it was built,
\* its file handle is released exactly once, and from the first close on the
\* handle opened for the dataset is no longer open
C13_CloseIdempotent ==
    \A d \in 1..Len(stores) :
        LET h == handles[stores[d].handle]
        IN  /\ h.path = stores[d].path
            /\ stores[d].closes = 0 => (h.open /\ h.releases = 0)
            /\ stores[d].closes >= 1 => (~h.open /\ h.releases = 1)

\* a dataset has been closed twice
C13_Witness ==
    \E d \in 1..Len(stores) :
        /\ stores[d].closes = 2
        /\ handles[stores[d].handle].releases = 1
        /\ ~handles[stores[d].handle].open

\* C14: a slice read of a lazy variable issued after its dataset was closed
\* fails with the closed-file error and never returns payload
C14_ReadAfterClose ==
    (last_read # Nothing /\ last_read[1].closes >= 1) =>
        /\ last_read[1].result = ClosedError
        /\ last_read[1].result
              # <<stores[last_read[1].store].path,
                  stores[last_read[1].store].lazy[last_read[1].name]>>

\* a lazy variable was read after its dataset had been closed
C14_Witness ==
    /\ last_read # Nothing
    /\ last_read[1].closes >= 1
    /\ last_read[1].result = ClosedError

\* C16: two opens of one path share one file handle: at no time are two
\* separate handles open for the same path
C16_SharedHandle ==
    \A a, b \in 1..Len(handles) :
        (a # b /\ handles[a].open /\ handles[b].open) => handles[a].path # handles[b].path

\* C17: for every collection of paths (any order, repetitions and spellings)
\* _resolve_glob returns resolved absolute paths in strictly increasing order,
\* so no file appears twice
C17_StrictlySorted ==
    (Returned("resolve") /\ call.kind = "iter" /\ result[1].ok) =>
        LET paths == result[1].paths
        IN  /\ \A i \in 1..Len(paths) : paths[i][1] = "/"
            /\ \A i, j \in 1..Len(paths) : i < j => PathLess(paths[i], paths[j])

\* C18: given a glob pattern as one string, _resolve_glob returns exactly the
\* files matching the pattern, sorted, which is also what it returns for the
\* generator of the matching paths
C18_PatternMatches ==
    (Returned("resolve") /\ call.kind = "str" /\ FirstIndex(call.arg, "*") # 0) =>
        LET matches == GlobMatches(call.arg)
        IN  /\ result[1] = _resolve_glob("iter", ListOf(matches))
            /\ result[1].ok =>
                   {result[1].paths[i] : i \in 1..Len(result[1].paths)} = matches

\* C19: guess_can_open answers by the magic marker when it was read (true
\* exactly for SDF1), and otherwise by the suffix, true exactly when it equals
\* .sdf without regard to case
C19_GuessCanOpen ==
    Returned("guess") =>
        result[1] = IF call.magic # None
                    THEN Len(call.magic) >= 4 /\ SubSeq(call.magic, 1, 4) = MagicSdf
                    ELSE Lower(PathSuffix(call.name)) = SdfSuffix

\* C20: _rename_with_underscore replaces every "/", " " and "-" by "_", leaves
\* every other character as it is, and applying it twice changes nothing more
C20_FlattenIdempotent ==
    Returned("rename") =>
        LET s == call.arg
            r == result[1]
        IN  /\ Len(r) = Len(s)
            /\ \A i \in 1..Len(s) :
                   r[i] = IF s[i] \in {"/", " ", "-"} THEN "_" ELSE s[i]
            /\ _rename_with_underscore(r) = r

\* an identifier holding a slash, a space and a dash has been flattened
C20_Witness ==
    /\ Returned("rename")
    /\ {"/", " ", "-"} \subseteq {call.arg[i] : i \in 1..Len(call.arg)}
    /\ result[1] = <<"_", "_", "_">>

\* the names a rescale call passes, whatever their form
NamedCoords ==
    IF call.kind = "str" THEN {call.names}
    ELSE {call.names[i] : i \in 1..Len(call.names)}

\* C21: rescale_coords takes coord_names as one string, a list or a tuple, and
\* returns the dataset with exactly the named coordinates multiplied and their
\* units replaced, their other attributes and every other coordinate kept
C21_RescaleForms ==
    (/\ Returned("rescale")
     /\ call.kind \in {"str", "list", "tuple"}
     /\ NamedCoords \subseteq DOMAIN RescaleCoords) =>
        /\ result[1].ok
        /\ \A c \in DOMAIN RescaleCoords :
              result[1].coords[c] =
                 IF c \in NamedCoords
                 THEN [values |-> [i \in 1..Len(RescaleCoords[c].values) |->
                                      RescaleCoords[c].values[i] * call.multiplier],
                       attrs |-> [units |-> "cm",
                                  full_name |-> RescaleCoords[c].attrs.full_name,
                                  long_name |-> RescaleCoords[c].attrs.long_name]]
                 ELSE RescaleCoords[c]

\* C22: every data variable of an assembled dataset carries full_name (the raw
\* identifier of its block), a display label and a point-data flag, and its
\* key is the flattened full_name
C22_VariableAttrs ==
    dataset # Nothing =>
        \A n \in DOMAIN dataset[1].data_vars :
            LET a == dataset[1].data_vars[n].attrs
            IN  /\ {"full_name", "long_name", "point_data"} \subseteq DOMAIN a
                /\ \E i \in 1..Len(sdf.variables) : sdf.variables[i].key = a.full_name
                /\ n = _rename_with_underscore(a.full_name)

\* the meshes of the file that the grids loop registers
RegisteredGrids ==
    {i \in 1..Len(sdf.grids) : KeepsGrid(sdf.grids[i], args.keep_particles)}

\* C23: in an assembled dataset every axis bound to a gridded variable is the
\* name of a coordinate registered from a mesh of the file, and that
\* coordinate has the variable's extent in that position
C23_AxisRegistered ==
    dataset # Nothing =>
        \A i \in ReadFields :
            LET v == dataset[1].data_vars[_rename_with_underscore(sdf.variables[i].key)]
            IN  \A j \in 1..Len(v.dims) :
                    /\ v.dims[j] \in DOMAIN dataset[1].coords
                    /\ dataset[1].coords[v.dims[j]].size = v.shape[j]
                    /\ \E g \in RegisteredGrids :
                           sdf.grids[g].name = dataset[1].coords[v.dims[j]].full_name

\* the call has ended, with a dataset or with an exception
Ended == pc \in {"done", "failed"}

\* the name is the raw or underscored name of a block the variables loop
\* ignores, and of no other block of the file
NamesIgnoredOnly(name) ==
    LET hits == {i \in 1..Len(files[1].variables) :
                    _rename_with_underscore(files[1].variables[i].key)
                        = _rename_with_underscore(name)}
    IN  hits # {} /\ \A i \in hits : IsIgnoredVariable(files[1].variables[i].key)

\* C27: the exclusion filter is applied before the drop set, so a drop target
\* that names only an ignored block is not found and the open fails
C27_FilterBeforeDrop ==
    (/\ Ended
     /\ \E i \in 1..Len(args.drop_variables) : NamesIgnoredOnly(args.drop_variables[i])) =>
        /\ dataset = Nothing
        /\ error # Nothing
        /\ error[1].type = "KeyError"
        /\ error[1].what = "not found"

\* every (mesh, axis label) pair the grids loop registers
MeshAxes ==
    UNION {{<<g, j>> : j \in 1..Len(sdf.grids[g].labels)} : g \in RegisteredGrids}

\* full_name of the grids loop
CoordName(a) == Under(sdf.grids[a[1]].labels[a[2]], GridBaseName(sdf.grids[a[1]].name))

\* C29: within one file two distinct (mesh, axis label) pairs never get the
\* same coordinate name, so no mesh's coordinate is overwritten by another's
C29_CoordNamesUnique ==
    (pc \notin {"drop", "grids"} /\ ~DropFailed) =>
        /\ \A a, b \in MeshAxes : a # b => CoordName(a) # CoordName(b)
        /\ \A a \in MeshAxes :
              /\ CoordName(a) \in DOMAIN coords
              /\ coords[CoordName(a)].full_name = sdf.grids[a[1]].name

\* the requested name matches a variable of the file in canonical form
MatchesVariable(name) ==
    \E i \in 1..Len(files[1].variables) :
        _rename_with_underscore(files[1].variables[i].key) = _rename_with_underscore(name)

\* C30: a drop list every name of which matches a variable of the file in
\* canonical form does not make the drop step fail, also when it names one
\* variable more than once
C30_DropRepeats ==
    (/\ pc # "drop"
     /\ \A i \in 1..Len(args.drop_variables) : MatchesVariable(args.drop_variables[i])) =>
        (error = Nothing \/ error[1].what \notin {"not found", "pop"})

\* the point-data coordinates of the consolidated dataset
PointCoords == {c \in DOMAIN combined[1].coords : combined[1].coords[c].point_data}

\* C28: in either mode every point-data coordinate of the consolidated dataset
\* lies along a time axis, the shared one with unified time and the one of its
\* mesh's group with separate times, whatever the point mesh is called; the
\* lookup of the mesh's group never makes the open fail
C28_PointCoordsExpanded ==
    /\ mpc = "failed" => merror[1].what # "var_times_map"
    /\ mpc = "done" =>
          \A c \in PointCoords :
              LET e == combined[1].coords[c]
              IN  /\ e.tdim # None
                  /\ ~margs.separate_times => e.tdim = Time
                  /\ margs.separate_times =>
                        /\ _rename_with_underscore(e.full_name) \in DOMAIN var_times_map
                        /\ e.tdim = var_times_map[_rename_with_underscore(e.full_name)]

\* C24: the shape and dtype of a lazy variable are recorded before any payload
\* read of it and stay what the block's metadata say; assembling the file
\* reads no payload of it; its payload is read only for a requested slice
C24_ProbeBeforeRead ==
    /\ \A n \in payload_read : n \in DOMAIN arrays
    /\ opener.pc \notin {"none", "done"} => payload_read = {}
    /\ payload_read \subseteq requested
    /\ \A t \in DOMAIN readers :
          readers[t].pc \in {"read", "reading"} => readers[t].name \in DOMAIN arrays
    /\ \A n \in DOMAIN arrays :
          \E i \in 1..Len(ThreadFile.variables) :
              /\ ThreadFile.variables[i].key = arrays[n].key
              /\ arrays[n].shape = ThreadFile.variables[i].shape
              /\ arrays[n].dtype = DType(ThreadFile.variables[i])

\* both lazy variables were probed and one of them was read afterwards
C24_Witness ==
    /\ opener.pc = "done"
    /\ Cardinality(DOMAIN arrays) = 2
    /\ Cardinality(payload_read) = 1
    /\ \E t \in DOMAIN readers : readers[t].done >= 1

\* the threads whose payload read is in progress
Reading == {t \in DOMAIN readers : readers[t].pc = "reading"}

\* C25: every payload read is made while the store's lock is held, so no two
\* payload reads of one store are in progress together
C25_ReadsUnderLock ==
    /\ \A t \in Reading : lock = t
    /\ Cardinality(Reading) <= 1

\* no thread asks for the lock while it holds it
NoNestedRequest ==
    /\ opener.pc = "acquire" => lock # Opener
    /\ \A t \in DOMAIN readers : readers[t].pc = "acquire" => lock # t

====
